---- MODULE Spec2Model ----
(***************************************************************************)
(* Model of stream_executor/cuda/cuda_graph.cc: the CUDA graph lifecycle   *)
(* helpers (CudaGraphSupport counters, OwnedCudaGraphExec Update / Launch  *)
(* / destructor, CaptureCudaGraph, InstantiateCudaGraph,                   *)
(* IsStreamCapturing).                                                     *)
(*                                                                         *)
(* Host threads call the helpers; only the two CudaGraphSupport counters   *)
(* are shared, and every std::atomic operation on them is one step.        *)
(* A VLOG(n) statement evaluates its streamed operands only when the       *)
(* verbosity is at least n, so side effects written inside a VLOG          *)
(* statement happen only then.                                             *)
(*                                                                         *)
(* Spec is the whole of cuda_graph.cc; LifecycleSpec is the lifetime of    *)
(* the handles alone, with moves of OwnedCudaGraphExec objects.            *)
(*                                                                         *)
(* Model of mlir/tf2xla/transforms/legalize_tf_types.cc (TypeSpec): the    *)
(* type conversion of TfTypeConverter (IsIllegalType, ToLegalType,         *)
(* ToLegalElementType) applied to bare and shaped types.                   *)
(***************************************************************************)
EXTENDS Integers, Sequences, FiniteSets, TLC

\* ---------------------------------------------------------------- bounds
NumThreads == 2
MaxExecs == 2
MaxGraphs == 2
MaxLaunches == 2
MaxUpdates == 1
\* std::atomic<size_t> arithmetic is modular; the model uses a reduced width.
SizeModulus == 64
\* legalize_tf_types.cc: shapes of the shaped types given to the converter,
\* and how often the converter is applied to its own result.
MaxRank == 2
MaxDim == 2
MaxConversions == 2

\* ------------------------------------------------- constants of the code
UpdateVlogLevel == 3
LaunchVlogLevel == 3
DestroyVlogLevel == 5
VlogLevels == {0, UpdateVlogLevel, DestroyVlogLevel}

Threads == 1..NumThreads
Slots == 1..MaxExecs
GraphIds == 1..MaxGraphs

cudaSuccess == "cudaSuccess"
cudaErrorMemoryAllocation == "cudaErrorMemoryAllocation"
cudaErrorInvalidValue == "cudaErrorInvalidValue"
CudaErrors == {cudaSuccess, cudaErrorMemoryAllocation, cudaErrorInvalidValue}

cudaGraphExecUpdateSuccess == "cudaGraphExecUpdateSuccess"
cudaGraphExecUpdateError == "cudaGraphExecUpdateError"
UpdateResults == {cudaGraphExecUpdateSuccess, cudaGraphExecUpdateError}

\* absl status codes returned by the helpers
OkStatus == "Ok"
InternalError == "Internal"
ResourceExhaustedError == "ResourceExhausted"

VARIABLES
    vlog,                           \* verbosity the process runs with
    allocated_cuda_graph_execs_,    \* CudaGraphSupport counter
    alive_cuda_graph_execs_,        \* CudaGraphSupport counter
    streamCapturing,                \* capture state of the stream (driver)
    graphs,                         \* graph id -> state of that cudaGraph_t
    execs,                          \* slot -> OwnedCudaGraphExec object
    pc,                             \* thread -> position in the helper
    loc,                            \* thread -> locals of the running helper
    ret,                            \* the status most recently returned by a helper
    ids,                            \* the values NotifyGraphExecCreated returned, in order
    type,                           \* legalize_tf_types.cc: the type given to the converter
    converted                       \* its successive conversions, each applied to the last

typeVars == <<type, converted>>

vars == <<vlog, allocated_cuda_graph_execs_, alive_cuda_graph_execs_,
          streamCapturing, graphs, execs, pc, loc, ret, ids, type, converted>>

\* ------------------------------------------------------------- helpers
\* The value of type while no type is being converted.
NoType == [container |-> "none", shape |-> <<>>, kind |-> "none", width |-> 0,
           signedness |-> "none"]

VlogIsOn(level) == vlog >= level

\* An OwnedCudaGraphExec object: the unique_ptr (exec, 0 when null), id_,
\* num_launches_, num_updates_.  state: "none" (not constructed yet), "owned"
\* (holds an executable), "empty" (moved-from), "dead" (destroyed while it
\* held an executable), "gone" (destroyed while empty).
NoExec == [state |-> "none", id_ |-> 0, exec |-> 0, num_launches_ |-> 0,
           num_updates_ |-> 0]
DeadExec == [NoExec EXCEPT !.state = "dead"]
GoneExec == [NoExec EXCEPT !.state = "gone"]

NoLoc == [captured |-> TRUE, err |-> cudaSuccess, graph |-> 0]
\* A returned status: the helper, the absl code, the message prefix, and
\* info: what the capture callback had returned (for a capture that reached
\* it), the bool IsStreamCapturing answers.  seq alternates with every
\* status returned, so that two equal results in a row are two states.
NoRet == [op |-> "none", code |-> OkStatus, msg |-> "", info |-> "", seq |-> 0]

Status(op, code, msg, info) ==
    [op |-> op, code |-> code, msg |-> msg, info |-> info, seq |-> 1 - ret.seq]

\* std::atomic<size_t>::fetch_add(1) / fetch_sub(1): the stored value
FetchAdd(v) == (v + 1) % SizeModulus
FetchSub(v) == (v - 1) % SizeModulus

\* States of a cudaGraph_t: "none" (not created yet), "raw" (created by
\* cudaStreamEndCapture, owned by no OwnedCudaGraph), "owned" (owned by an
\* OwnedCudaGraph a caller holds), "arg" (owned by the by-value OwnedCudaGraph
\* argument of a running InstantiateCudaGraph), "destroyed".

\* DestroyGraph that releases nothing: the graph is left as it was, as when
\* the OwnedCudaGraph argument were taken by reference.
DestroyGraphNotReleased(g) == graphs

\* CudaGraphSupport::DestroyGraph: release of the graph a handle owns
DestroyGraph(g) == [graphs EXCEPT ![g] = "destroyed"]

OwnedGraphs == {g \in GraphIds : graphs[g] = "owned"}

FreeSlots == {s \in Slots : execs[s].state = "none"}
InFlight == {t \in Threads : pc[t] \in {"inst_alive", "inst_allocated"}}

Init ==
    /\ vlog \in VlogLevels
    /\ allocated_cuda_graph_execs_ = 0
    /\ alive_cuda_graph_execs_ = 0
    /\ streamCapturing = FALSE
    /\ graphs = [g \in GraphIds |-> "none"]
    /\ execs = [s \in Slots |-> NoExec]
    /\ pc = [t \in Threads |-> "idle"]
    /\ loc = [t \in Threads |-> NoLoc]
    /\ ret = NoRet
    /\ ids = <<>>
    /\ type = NoType
    /\ converted = <<>>

\* --------------------------------------------------------------- driver
\* Capture state of the stream after cudaStreamBeginCapture returned err:
\* Idle -> Capturing when the call succeeds, unchanged when it fails.
StreamBeginCapture(err) == IF err = cudaSuccess THEN TRUE ELSE streamCapturing

\* Capture state of the stream after cudaStreamEndCapture returned err:
\* the capture is ended whatever the call returns.
StreamEndCapture(err) == FALSE

\* The graph cudaStreamEndCapture hands out: a fresh one on success.
NewGraph == CHOOSE g \in GraphIds : graphs[g] = "none" /\ \A k \in GraphIds : graphs[k] = "none" => g <= k

CaptureSessions == {t \in Threads : pc[t] \in {"cap_callback", "cap_end", "cap_return"}}

\* ------------------------------------------------------ CaptureCudaGraph
\* CaptureBegin without the test of the error of cudaStreamBeginCapture: the
\* call goes on to the callback whatever the driver returned.
CaptureBeginErrorIgnored(t, err) ==
    /\ pc[t] = "idle"
    /\ CaptureSessions = {}
    /\ \E g \in GraphIds : graphs[g] = "none"
    /\ streamCapturing' = StreamBeginCapture(err)
    /\ pc' = [pc EXCEPT ![t] = "cap_callback"]
    /\ UNCHANGED <<vlog, allocated_cuda_graph_execs_, alive_cuda_graph_execs_,
                   graphs, execs, loc, ret, ids>>
    /\ UNCHANGED typeVars

\* cudaStreamBeginCapture; an error returns at once.
CaptureBegin(t, err) ==
    /\ pc[t] = "idle"
    /\ CaptureSessions = {}
    /\ \E g \in GraphIds : graphs[g] = "none"
    /\ streamCapturing' = StreamBeginCapture(err)
    /\ IF err # cudaSuccess
       THEN /\ ret' = Status("Capture", InternalError, "stream begin capture failed", "")
            /\ pc' = pc
       ELSE /\ pc' = [pc EXCEPT ![t] = "cap_callback"]
            /\ ret' = ret
    /\ UNCHANGED <<vlog, allocated_cuda_graph_execs_, alive_cuda_graph_execs_,
                   graphs, execs, loc, ids>>
    /\ UNCHANGED typeVars

\* CaptureCallback that returns the callback's failure at once, with
\* cudaStreamEndCapture never called.
CaptureCallbackReturnsFailure(t, ok) ==
    /\ pc[t] = "cap_callback"
    /\ IF ok
       THEN /\ loc' = [loc EXCEPT ![t].captured = ok]
            /\ pc' = [pc EXCEPT ![t] = "cap_end"]
            /\ ret' = ret
       ELSE /\ ret' = Status("Capture", InternalError, "failed to capture CUDA graph",
                             "callback failed")
            /\ loc' = loc
            /\ pc' = [pc EXCEPT ![t] = "idle"]
    /\ UNCHANGED <<vlog, allocated_cuda_graph_execs_, alive_cuda_graph_execs_,
                   streamCapturing, graphs, execs, ids>>
    /\ UNCHANGED typeVars

\* auto captured = capture();
CaptureCallback(t, ok) ==
    /\ pc[t] = "cap_callback"
    /\ loc' = [loc EXCEPT ![t].captured = ok]
    /\ pc' = [pc EXCEPT ![t] = "cap_end"]
    /\ UNCHANGED <<vlog, allocated_cuda_graph_execs_, alive_cuda_graph_execs_,
                   streamCapturing, graphs, execs, ret, ids>>
    /\ UNCHANGED typeVars

\* CaptureEnd with the callback's result checked before the capture is
\* ended: a failed callback returns at once, cudaStreamEndCapture not called.
CaptureEndSkippedAfterFailure(t, err) ==
    /\ pc[t] = "cap_end"
    /\ IF ~loc[t].captured
       THEN /\ ret' = Status("Capture", InternalError, "failed to capture CUDA graph",
                             "callback failed")
            /\ loc' = [loc EXCEPT ![t] = NoLoc]
            /\ pc' = [pc EXCEPT ![t] = "idle"]
            /\ UNCHANGED <<streamCapturing, graphs>>
       ELSE /\ streamCapturing' = StreamEndCapture(err)
            /\ IF err = cudaSuccess
               THEN /\ graphs' = [graphs EXCEPT ![NewGraph] = "raw"]
                    /\ loc' = [loc EXCEPT ![t].err = err, ![t].graph = NewGraph]
               ELSE /\ graphs' = graphs
                    /\ loc' = [loc EXCEPT ![t].err = err]
            /\ pc' = [pc EXCEPT ![t] = "cap_return"]
            /\ ret' = ret
    /\ UNCHANGED <<vlog, allocated_cuda_graph_execs_, alive_cuda_graph_execs_,
                   execs, ids>>
    /\ UNCHANGED typeVars

\* cudaStreamEndCapture(gpu_stream, &graph)
CaptureEnd(t, err) ==
    /\ pc[t] = "cap_end"
    /\ streamCapturing' = StreamEndCapture(err)
    /\ IF err = cudaSuccess
       THEN /\ graphs' = [graphs EXCEPT ![NewGraph] = "raw"]
            /\ loc' = [loc EXCEPT ![t].err = err, ![t].graph = NewGraph]
       ELSE /\ graphs' = graphs
            /\ loc' = [loc EXCEPT ![t].err = err]
    /\ pc' = [pc EXCEPT ![t] = "cap_return"]
    /\ UNCHANGED <<vlog, allocated_cuda_graph_execs_, alive_cuda_graph_execs_,
                   execs, ret, ids>>
    /\ UNCHANGED typeVars

CallbackInfo(captured) == IF captured THEN "callback ok" ELSE "callback failed"

\* CaptureResult with the callback's result checked before the end-capture
\* error.
CaptureResultCallbackFirst(err, captured) ==
    IF ~captured
    THEN Status("Capture", InternalError, "failed to capture CUDA graph",
                CallbackInfo(captured))
    ELSE IF err # cudaSuccess
    THEN Status("Capture", InternalError, "stream end capture failed",
                CallbackInfo(captured))
    ELSE Status("Capture", OkStatus, "", CallbackInfo(captured))

\* The result CaptureCudaGraph returns once the capture has been ended.
CaptureResult(err, captured) ==
    IF err # cudaSuccess
    THEN Status("Capture", InternalError, "stream end capture failed",
                CallbackInfo(captured))
    ELSE IF ~captured
    THEN Status("Capture", InternalError, "failed to capture CUDA graph",
                CallbackInfo(captured))
    ELSE Status("Capture", OkStatus, "", CallbackInfo(captured))

\* CaptureReturn that returns Ok without wrapping the captured graph in the
\* OwnedCudaGraph it returns.
CaptureReturnGraphNotWrapped(t) ==
    /\ pc[t] = "cap_return"
    /\ ret' = CaptureResult(loc[t].err, loc[t].captured)
    /\ loc' = [loc EXCEPT ![t] = NoLoc]
    /\ pc' = [pc EXCEPT ![t] = "idle"]
    /\ UNCHANGED <<vlog, allocated_cuda_graph_execs_, alive_cuda_graph_execs_,
                   streamCapturing, graphs, execs, ids>>
    /\ UNCHANGED typeVars

\* The checks after cudaStreamEndCapture and the return of the function.
CaptureReturn(t) ==
    /\ pc[t] = "cap_return"
    /\ ret' = CaptureResult(loc[t].err, loc[t].captured)
    /\ graphs' = IF ret'.code = OkStatus
                  THEN [graphs EXCEPT ![loc[t].graph] = "owned"]
                  ELSE graphs
    /\ loc' = [loc EXCEPT ![t] = NoLoc]
    /\ pc' = [pc EXCEPT ![t] = "idle"]
    /\ UNCHANGED <<vlog, allocated_cuda_graph_execs_, alive_cuda_graph_execs_,
                   streamCapturing, execs, ids>>
    /\ UNCHANGED typeVars

\* -------------------------------------------------- InstantiateCudaGraph
\* InstantiateError without the cudaErrorMemoryAllocation case.
InstantiateErrorAllInternal(err) ==
    Status("Instantiate", InternalError, "graph instantiation failed", "")

\* The error InstantiateCudaGraph returns when cudaGraphInstantiate failed.
InstantiateError(err) ==
    IF err = cudaErrorMemoryAllocation
    THEN Status("Instantiate", ResourceExhaustedError, "graph instantiation failed", "")
    ELSE Status("Instantiate", InternalError, "graph instantiation failed", "")

\* InstantiateCall with NotifyGraphExecCreated called before the result of
\* cudaGraphInstantiate is looked at.
InstantiateCallNotifyFirst(t, g, err) ==
    /\ pc[t] = "idle"
    /\ g \in OwnedGraphs
    /\ IF err # cudaSuccess
       THEN /\ ret' = InstantiateError(err)
            /\ graphs' = DestroyGraph(g)
            /\ alive_cuda_graph_execs_' = FetchAdd(alive_cuda_graph_execs_)
            /\ allocated_cuda_graph_execs_' = FetchAdd(allocated_cuda_graph_execs_)
            /\ loc' = loc
            /\ pc' = pc
       ELSE /\ Cardinality(FreeSlots) > Cardinality(InFlight)
            /\ graphs' = [graphs EXCEPT ![g] = "arg"]
            /\ loc' = [loc EXCEPT ![t].graph = g]
            /\ pc' = [pc EXCEPT ![t] = "inst_alive"]
            /\ UNCHANGED <<ret, allocated_cuda_graph_execs_, alive_cuda_graph_execs_>>
    /\ UNCHANGED <<vlog, streamCapturing, execs, ids>>
    /\ UNCHANGED typeVars

\* cudaGraphInstantiate(&exec, &*graph); an error returns at once, and the
\* by-value OwnedCudaGraph argument is destroyed with the call.
InstantiateCall(t, g, err) ==
    /\ pc[t] = "idle"
    /\ g \in OwnedGraphs
    /\ IF err # cudaSuccess
       THEN /\ ret' = InstantiateError(err)
            /\ graphs' = DestroyGraph(g)
            /\ loc' = loc
            /\ pc' = pc
       ELSE /\ Cardinality(FreeSlots) > Cardinality(InFlight)
            /\ graphs' = [graphs EXCEPT ![g] = "arg"]
            /\ loc' = [loc EXCEPT ![t].graph = g]
            /\ pc' = [pc EXCEPT ![t] = "inst_alive"]
            /\ ret' = ret
    /\ UNCHANGED <<vlog, allocated_cuda_graph_execs_, alive_cuda_graph_execs_,
                   streamCapturing, execs, ids>>
    /\ UNCHANGED typeVars

\* NotifyGraphExecCreated, first statement: alive_cuda_graph_execs_.fetch_add(1)
NotifyCreatedAlive(t) ==
    /\ pc[t] = "inst_alive"
    /\ alive_cuda_graph_execs_' = FetchAdd(alive_cuda_graph_execs_)
    /\ pc' = [pc EXCEPT ![t] = "inst_allocated"]
    /\ UNCHANGED <<vlog, allocated_cuda_graph_execs_, streamCapturing, graphs,
                   execs, loc, ret, ids>>
    /\ UNCHANGED typeVars

\* NotifyCreatedId taken from the alive counter.
NotifyCreatedIdFromAlive == alive_cuda_graph_execs_

\* The value NotifyGraphExecCreated returns: what
\* allocated_cuda_graph_execs_.fetch_add(1) returns, the value before the add.
NotifyCreatedId == allocated_cuda_graph_execs_

\* OwnedCudaGraphExec(id, exec): a fresh handle, both counters 0
NewExec(id, exec) ==
    [state |-> "owned", id_ |-> id, exec |-> exec, num_launches_ |-> 0,
     num_updates_ |-> 0]

NewSlot == CHOOSE s \in FreeSlots : \A k \in FreeSlots : s <= k

\* The cudaGraphExec_t cudaGraphInstantiate hands out: one not handed out
\* before (0 is the null pointer).
NewCudaGraphExec == Len(ids) + 1

\* NotifyGraphExecCreated, second statement: allocated_cuda_graph_execs_
\* .fetch_add(1), whose result is the id; then, local to the thread,
\* return OwnedCudaGraphExec(id, exec), with which the graph argument is
\* destroyed.
InstantiateReturn(t) ==
    /\ pc[t] = "inst_allocated"
    /\ allocated_cuda_graph_execs_' = FetchAdd(allocated_cuda_graph_execs_)
    /\ ids' = Append(ids, NotifyCreatedId)
    /\ execs' = [execs EXCEPT ![NewSlot] = NewExec(NotifyCreatedId, NewCudaGraphExec)]
    /\ graphs' = DestroyGraph(loc[t].graph)
    /\ ret' = Status("Instantiate", OkStatus, "", "")
    /\ loc' = [loc EXCEPT ![t] = NoLoc]
    /\ pc' = [pc EXCEPT ![t] = "idle"]
    /\ UNCHANGED <<vlog, alive_cuda_graph_execs_, streamCapturing>>
    /\ UNCHANGED typeVars

\* ---------------------------------------------------- OwnedCudaGraphExec
\* num_updates_ after the VLOG(3) statement of Update, which holds num_updates_++
UpdateNumUpdates(n) == IF VlogIsOn(UpdateVlogLevel) THEN n + 1 ELSE n

\* UpdateNumLaunches without the reset.
UpdateNumLaunchesKept(n) == n

\* num_launches_ after Update: num_launches_ = 0, before the driver call
UpdateNumLaunches(n) == 0

\* The status Update returns for the results of cudaGraphExecUpdate.
UpdateResult(err, updated) ==
    IF err # cudaSuccess \/ updated # cudaGraphExecUpdateSuccess
    THEN Status("Update", InternalError, "failed to update cuda graph", "")
    ELSE Status("Update", OkStatus, "", "")

\* OwnedCudaGraphExec::Update(OwnedCudaGraph graph) on the handle in slot h
Update(t, h, g, err, updated) ==
    /\ pc[t] = "idle"
    /\ g \in OwnedGraphs
    /\ execs[h].state = "owned"
    /\ execs[h].num_updates_ < MaxUpdates
    /\ execs' = [execs EXCEPT ![h].num_updates_ = UpdateNumUpdates(@),
                              ![h].num_launches_ = UpdateNumLaunches(@)]
    /\ ret' = UpdateResult(err, updated)
    /\ graphs' = DestroyGraph(g)
    /\ UNCHANGED <<vlog, allocated_cuda_graph_execs_, alive_cuda_graph_execs_,
                   streamCapturing, pc, loc, ids>>
    /\ UNCHANGED typeVars

\* num_launches_ after the VLOG(3) statement of Launch, which holds ++num_launches_
LaunchNumLaunches(n) == IF VlogIsOn(LaunchVlogLevel) THEN n + 1 ELSE n

\* The status Launch returns for the result of cudaGraphLaunch.
LaunchResult(err) ==
    IF err # cudaSuccess
    THEN Status("Launch", InternalError, "failed to run cuda graph", "")
    ELSE Status("Launch", OkStatus, "", "")

\* OwnedCudaGraphExec::Launch(stream) on the handle in slot h
Launch(t, h, err) ==
    /\ pc[t] = "idle"
    /\ execs[h].state = "owned"
    /\ execs[h].num_launches_ < MaxLaunches
    /\ execs' = [execs EXCEPT ![h].num_launches_ = LaunchNumLaunches(@)]
    /\ ret' = LaunchResult(err)
    /\ UNCHANGED <<vlog, allocated_cuda_graph_execs_, alive_cuda_graph_execs_,
                   streamCapturing, graphs, pc, loc, ids>>
    /\ UNCHANGED typeVars

\* DestructorNotifies without the if (*this) test.
DestructorNotifiesMovedFrom(h) == VlogIsOn(DestroyVlogLevel)

\* Whether ~OwnedCudaGraphExec calls NotifyGraphExecDestroyed: the call is an
\* operand of the VLOG(5) statement guarded by if (*this).
DestructorNotifies(h) == execs[h].state = "owned" /\ VlogIsOn(DestroyVlogLevel)

\* OwnedCudaGraphExec::~OwnedCudaGraphExec on the handle in slot h
Destroy(t, h) ==
    /\ pc[t] = "idle"
    /\ execs[h].state \in {"owned", "empty"}
    /\ alive_cuda_graph_execs_' =
           IF DestructorNotifies(h) THEN FetchSub(alive_cuda_graph_execs_)
                                    ELSE alive_cuda_graph_execs_
    /\ execs' = [execs EXCEPT ![h] = IF @.state = "owned" THEN DeadExec ELSE GoneExec]
    /\ UNCHANGED <<vlog, allocated_cuda_graph_execs_, streamCapturing, graphs,
                   pc, loc, ret, ids>>
    /\ UNCHANGED typeVars

\* OwnedCudaGraphExec(OwnedCudaGraphExec&&): the handle constructed in slot
\* h2 takes the unique_ptr, id_ and the counters of the handle in slot h,
\* whose unique_ptr is left null.
MoveExec(t, h, h2) ==
    /\ pc[t] = "idle"
    /\ execs[h].state = "owned"
    /\ execs[h2].state = "none"
    /\ Cardinality(FreeSlots) > Cardinality(InFlight)
    /\ execs' = [execs EXCEPT ![h2] = execs[h],
                              ![h] = [@ EXCEPT !.state = "empty", !.exec = 0]]
    /\ UNCHANGED <<vlog, allocated_cuda_graph_execs_, alive_cuda_graph_execs_,
                   streamCapturing, graphs, pc, loc, ret, ids>>
    /\ UNCHANGED typeVars

\* ~OwnedCudaGraph of a handle a caller holds: the unique_ptr deleter
\* CudaGraphSupport::DestroyGraph releases the graph.
DestroyOwnedGraph(t, g) ==
    /\ pc[t] = "idle"
    /\ g \in OwnedGraphs
    /\ graphs' = DestroyGraph(g)
    /\ UNCHANGED <<vlog, allocated_cuda_graph_execs_, alive_cuda_graph_execs_,
                   streamCapturing, execs, pc, loc, ret, ids>>
    /\ UNCHANGED typeVars

\* ----------------------------------------------------- IsStreamCapturing
IsStreamCapturingResult(err) ==
    IF err # cudaSuccess
    THEN Status("IsStreamCapturing", InternalError,
                "Failed to get stream's capture status", "")
    ELSE Status("IsStreamCapturing", OkStatus, "",
                IF streamCapturing THEN "capturing" ELSE "idle")

IsStreamCapturing(t, err) ==
    /\ pc[t] = "idle"
    /\ ret' = IsStreamCapturingResult(err)
    /\ UNCHANGED <<vlog, allocated_cuda_graph_execs_, alive_cuda_graph_execs_,
                   streamCapturing, graphs, execs, pc, loc, ids>>
    /\ UNCHANGED typeVars

\* ------------------------------------------------------------------ Next
Next ==
    \/ \E t \in Threads, err \in CudaErrors : CaptureBegin(t, err)
    \/ \E t \in Threads, ok \in BOOLEAN : CaptureCallback(t, ok)
    \/ \E t \in Threads, err \in CudaErrors : CaptureEnd(t, err)
    \/ \E t \in Threads : CaptureReturn(t)
    \/ \E t \in Threads, g \in GraphIds, err \in CudaErrors : InstantiateCall(t, g, err)
    \/ \E t \in Threads : NotifyCreatedAlive(t)
    \/ \E t \in Threads : InstantiateReturn(t)
    \/ \E t \in Threads, h \in Slots, g \in GraphIds, err \in CudaErrors,
          updated \in UpdateResults : Update(t, h, g, err, updated)
    \/ \E t \in Threads, h \in Slots, err \in CudaErrors : Launch(t, h, err)
    \/ \E t \in Threads, h \in Slots : Destroy(t, h)
    \/ \E t \in Threads, err \in CudaErrors : IsStreamCapturing(t, err)

Spec == Init /\ [][Next]_vars

\* The lifetime of the handles alone: capture, instantiation, moves of
\* OwnedCudaGraphExec objects and the destructors of both handle types; no
\* handle is launched or updated.
LifecycleNext ==
    \/ \E t \in Threads, err \in CudaErrors : CaptureBegin(t, err)
    \/ \E t \in Threads, ok \in BOOLEAN : CaptureCallback(t, ok)
    \/ \E t \in Threads, err \in CudaErrors : CaptureEnd(t, err)
    \/ \E t \in Threads : CaptureReturn(t)
    \/ \E t \in Threads, g \in GraphIds, err \in CudaErrors : InstantiateCall(t, g, err)
    \/ \E t \in Threads : NotifyCreatedAlive(t)
    \/ \E t \in Threads : InstantiateReturn(t)
    \/ \E t \in Threads, h \in Slots, h2 \in Slots : MoveExec(t, h, h2)
    \/ \E t \in Threads, h \in Slots : Destroy(t, h)
    \/ \E t \in Threads, g \in GraphIds : DestroyOwnedGraph(t, g)

LifecycleSpec == Init /\ [][LifecycleNext]_vars

\* ============================================== legalize_tf_types.cc
\* A type is a record: container "none" for a type that is not shaped,
\* "ranked" / "unranked" for a ranked / unranked tensor type with its shape;
\* kind, width and signedness describe the type itself when it is not
\* shaped and its element type when it is.  The kinds are the five quantized
\* TF types, mlir::IntegerType ("integer", with width and signedness) and a
\* float type.
QuantizedKinds == {"qint8", "qint16", "qint32", "quint8", "quint16"}

Bare(kind, width, signedness) ==
    [container |-> "none", shape |-> <<>>, kind |-> kind, width |-> width,
     signedness |-> signedness]

\* mlir::IntegerType::get(context, width, signedness); signless by default
IntegerType(width, signedness) == Bare("integer", width, signedness)

ElementTypes ==
    {Bare(k, 0, "none") : k \in QuantizedKinds}
    \cup {IntegerType(w, s) : w \in {8, 16, 32}, s \in {"signless", "signed", "unsigned"}}
    \cup {Bare("float", 32, "none")}

Shapes == UNION {[1..n -> 1..MaxDim] : n \in 0..MaxRank}

\* ShapedType::clone(elementType): the same container and shape around
\* another element type
clone(shaped, elem) ==
    [shaped EXCEPT !.kind = elem.kind, !.width = elem.width,
                   !.signedness = elem.signedness]

Types ==
    ElementTypes
    \cup {clone([container |-> "ranked", shape |-> sh, kind |-> "none", width |-> 0,
                 signedness |-> "none"], e) : sh \in Shapes, e \in ElementTypes}
    \cup {clone([container |-> "unranked", shape |-> <<>>, kind |-> "none", width |-> 0,
                 signedness |-> "none"], e) : e \in ElementTypes}

\* type.dyn_cast<ShapedType>() succeeds
IsShaped(ty) == ty.container # "none"

\* ShapedType::getElementType
getElementType(shaped) == Bare(shaped.kind, shaped.width, shaped.signedness)

\* mlir::getElementTypeOrSelf
getElementTypeOrSelf(ty) == IF IsShaped(ty) THEN getElementType(ty) ELSE ty

IsIllegalElementType(ty) == ~IsShaped(ty) /\ ty.kind \in QuantizedKinds

\* ToLegalElementType with the quantized unsigned types made signless
\* integers, like the signed ones.
ToLegalElementTypeAllSignless(ty) ==
    IF IsShaped(ty) THEN ty
    ELSE IF ty.kind \in {"qint8", "quint8"} THEN IntegerType(8, "signless")
    ELSE IF ty.kind \in {"qint16", "quint16"} THEN IntegerType(16, "signless")
    ELSE IF ty.kind = "qint32" THEN IntegerType(32, "signless")
    ELSE ty

\* The TypeSwitch of ToLegalElementType: one case for each quantized type,
\* every other type (a shaped one too) is returned as it is.
ToLegalElementType(ty) ==
    IF IsShaped(ty) THEN ty
    ELSE IF ty.kind = "qint8" THEN IntegerType(8, "signless")
    ELSE IF ty.kind = "qint16" THEN IntegerType(16, "signless")
    ELSE IF ty.kind = "qint32" THEN IntegerType(32, "signless")
    ELSE IF ty.kind = "quint8" THEN IntegerType(8, "unsigned")
    ELSE IF ty.kind = "quint16" THEN IntegerType(16, "unsigned")
    ELSE ty

IsIllegalType(ty) == IsIllegalElementType(getElementTypeOrSelf(ty))

RECURSIVE ToLegalType(_)
ToLegalType(ty) ==
    IF IsIllegalElementType(ty) THEN ToLegalElementType(ty)
    ELSE IF IsShaped(ty) /\ IsIllegalType(getElementType(ty))
         THEN clone(ty, ToLegalType(getElementType(ty)))
         ELSE ty

\* The conversion TfTypeConverter registers
TfTypeConverter(ty) == IF IsIllegalType(ty) THEN ToLegalType(ty) ELSE ty

\* The type the converter is applied to next: the given type, then its own
\* last result.
ConverterInput == IF converted = <<>> THEN type ELSE converted[Len(converted)]

TypeInit ==
    /\ type \in Types
    /\ converted = <<>>
    /\ vlog = 0
    /\ allocated_cuda_graph_execs_ = 0
    /\ alive_cuda_graph_execs_ = 0
    /\ streamCapturing = FALSE
    /\ graphs = [g \in GraphIds |-> "none"]
    /\ execs = [s \in Slots |-> NoExec]
    /\ pc = [t \in Threads |-> "idle"]
    /\ loc = [t \in Threads |-> NoLoc]
    /\ ret = NoRet
    /\ ids = <<>>

\* TypeConverter::convertType: the registered conversion applied to a type
ConvertType ==
    /\ Len(converted) < MaxConversions
    /\ converted' = Append(converted, TfTypeConverter(ConverterInput))
    /\ UNCHANGED <<vlog, allocated_cuda_graph_execs_, alive_cuda_graph_execs_,
                   streamCapturing, graphs, execs, pc, loc, ret, ids, type>>

TypeNext == ConvertType

TypeSpec == TypeInit /\ [][TypeNext]_vars

\* ================================================================ claims
AllReturned == \A t \in Threads : pc[t] = "idle"

\* Successful InstantiateCudaGraph calls so far, and destructions of
\* non-empty handles so far (a destroyed non-empty handle stays "dead").
NumInstantiated == Cardinality({s \in Slots : execs[s].state \in {"owned", "dead"}})
NumDestroyed == Cardinality({s \in Slots : execs[s].state = "dead"})

\* A helper has just returned a status (every return flips ret.seq).
Returned == ret' # ret

\* C1: once all calls have returned, after N successful instantiations and M
\* destructions of non-empty handles, under every verbosity, the alive count
\* is N - M and the allocated count is N.
C1_CountsMatchLifecycle ==
    AllReturned =>
        /\ alive_cuda_graph_execs_ = NumInstantiated - NumDestroyed
        /\ allocated_cuda_graph_execs_ = NumInstantiated

\* C2: in every reachable state, between the atomic steps of a call too,
\* allocated >= alive >= 0, and allocated never decreases from one state to
\* the next.
C2_AllocatedBoundsAlive ==
    /\ [](allocated_cuda_graph_execs_ >= alive_cuda_graph_execs_
          /\ alive_cuda_graph_execs_ >= 0)
    /\ [][allocated_cuda_graph_execs_' >= allocated_cuda_graph_execs_]_vars

\* C3: a CaptureCudaGraph call whose callback returned failure returns an
\* error and no OwnedCudaGraph, whatever cudaStreamEndCapture returned, and
\* the stream is not capturing when the call returns.
C3_FailedCallbackLeavesStreamIdle ==
    [][(Returned /\ ret'.op = "Capture" /\ ret'.info = "callback failed") =>
          /\ ret'.code # OkStatus
          /\ OwnedGraphs' \subseteq OwnedGraphs
          /\ ~streamCapturing']_vars

C3_Witness ==
    /\ ret.op = "Capture"
    /\ ret.info = "callback failed"
    /\ ret.code = InternalError
    /\ ~streamCapturing
    /\ AllReturned

\* C4 as claimed: whenever the callback returned failure the returned error
\* is the callback's failure, also when cudaStreamEndCapture failed too; the
\* end-capture failure is returned only when the callback had succeeded.
C4_CallbackFailureTakesPrecedence ==
    [][\A t \in Threads : CaptureReturn(t) =>
          /\ ~loc[t].captured => ret'.msg = "failed to capture CUDA graph"
          /\ ret'.msg = "stream end capture failed" => loc[t].captured]_vars

\* C4 amended: the end-capture failure is the returned error whenever
\* cudaStreamEndCapture fails, whatever the callback returned; the callback's
\* failure is returned only when the callback failed and the end-capture
\* succeeded; the call succeeds only when both did.  One outcome per call.
C4_EndCaptureFailureTakesPrecedence ==
    [][\A t \in Threads : CaptureReturn(t) =>
          /\ loc[t].err # cudaSuccess =>
                 ret'.code = InternalError /\ ret'.msg = "stream end capture failed"
          /\ (loc[t].err = cudaSuccess /\ ~loc[t].captured) =>
                 ret'.code = InternalError /\ ret'.msg = "failed to capture CUDA graph"
          /\ (loc[t].err = cudaSuccess /\ loc[t].captured) => ret'.code = OkStatus]_vars

C4_Witness ==
    /\ ret.op = "Capture"
    /\ ret.msg = "stream end capture failed"
    /\ ret.info = "callback failed"

\* C5: each Launch that returns Ok increments num_launches_ by exactly 1,
\* under every verbosity, so that k successful launches on a fresh or just
\* updated handle leave the counter at k.
C5_SuccessfulLaunchCounts ==
    [][\A t \in Threads, h \in Slots : Launch(t, h, cudaSuccess) =>
          execs'[h].num_launches_ = execs[h].num_launches_ + 1]_vars

\* C6: a Launch that returns an error leaves num_launches_, num_updates_ and
\* id_ of the handle unchanged.
C6_FailedLaunchNotCounted ==
    [][\A t \in Threads, h \in Slots, err \in CudaErrors \ {cudaSuccess} :
          Launch(t, h, err) =>
              /\ execs'[h].num_launches_ = execs[h].num_launches_
              /\ execs'[h].num_updates_ = execs[h].num_updates_
              /\ execs'[h].id_ = execs[h].id_]_vars

\* C7: after an Update that returns Ok, under every verbosity, the handle's
\* num_launches_ is 0, its num_updates_ is one more than before, and its id_
\* is unchanged.
C7_SuccessfulUpdateCounts ==
    [][\A t \in Threads, h \in Slots, g \in GraphIds :
          Update(t, h, g, cudaSuccess, cudaGraphExecUpdateSuccess) =>
              /\ execs'[h].num_launches_ = 0
              /\ execs'[h].num_updates_ = execs[h].num_updates_ + 1
              /\ execs'[h].id_ = execs[h].id_]_vars

\* C8: InstantiateCudaGraph returns ResourceExhausted exactly when
\* cudaGraphInstantiate fails with cudaErrorMemoryAllocation; every other
\* failure of it, and every failure of begin-capture, end-capture, Update
\* (driver error or update result other than success), Launch and
\* IsStreamCapturing, returns Internal; no other call returns
\* ResourceExhausted.
C8_ErrorClassification ==
    [][Returned =>
       /\ ret'.op = "Instantiate" =>
            \A t \in Threads, g \in GraphIds, err \in CudaErrors \ {cudaSuccess} :
                InstantiateCall(t, g, err) =>
                    /\ ret'.code = ResourceExhaustedError <=> err = cudaErrorMemoryAllocation
                    /\ ret'.code = InternalError <=> err # cudaErrorMemoryAllocation
       /\ ret'.op = "Capture" =>
            /\ \A t \in Threads, err \in CudaErrors \ {cudaSuccess} :
                   CaptureBegin(t, err) => ret'.code = InternalError
            /\ \A t \in Threads :
                   (CaptureReturn(t) /\ loc[t].err # cudaSuccess) =>
                       ret'.code = InternalError
       /\ ret'.op = "Update" =>
            \A t \in Threads, h \in Slots, g \in GraphIds, err \in CudaErrors,
               updated \in UpdateResults :
                (Update(t, h, g, err, updated) /\
                 (err # cudaSuccess \/ updated # cudaGraphExecUpdateSuccess)) =>
                    ret'.code = InternalError
       /\ ret'.op = "Launch" =>
            \A t \in Threads, h \in Slots, err \in CudaErrors \ {cudaSuccess} :
                Launch(t, h, err) => ret'.code = InternalError
       /\ ret'.op = "IsStreamCapturing" =>
            \A t \in Threads, err \in CudaErrors \ {cudaSuccess} :
                IsStreamCapturing(t, err) => ret'.code = InternalError
       /\ ret'.code = ResourceExhaustedError => ret'.op = "Instantiate"
      ]_vars

C8_Witness ==
    /\ ret.op = "Instantiate"
    /\ ret.code = ResourceExhaustedError

\* C9: an InstantiateCudaGraph call that fails creates no OwnedCudaGraphExec
\* and leaves allocated, alive and the next identity unchanged; the counters
\* change only in a call whose cudaGraphInstantiate has succeeded.
C9_FailedInstantiateLeavesRegistry ==
    [][/\ (Returned /\ ret'.op = "Instantiate" /\ ret'.code # OkStatus) =>
              /\ allocated_cuda_graph_execs_' = allocated_cuda_graph_execs_
              /\ alive_cuda_graph_execs_' = alive_cuda_graph_execs_
              /\ execs' = execs
              /\ ids' = ids
       /\ allocated_cuda_graph_execs_' # allocated_cuda_graph_execs_ =>
              \E t \in Threads : pc[t] = "inst_allocated"
       /\ alive_cuda_graph_execs_' > alive_cuda_graph_execs_ =>
              \E t \in Threads : pc[t] = "inst_alive"
      ]_vars

C9_Witness ==
    /\ ret.op = "Instantiate"
    /\ ret.code = InternalError
    /\ allocated_cuda_graph_execs_ = 1
    /\ NumInstantiated = 1
    /\ AllReturned

\* C10: the identities NotifyGraphExecCreated returns, to whatever threads
\* and in whatever interleaving, strictly increase in the order they are
\* returned (so no two are equal, none is reused after a destruction, and
\* those returned to one thread are non-decreasing), the first one is 0, and
\* the id_ of every handle is the value returned to the call that made it.
C10_IdentitiesUnique ==
    /\ \A i, j \in 1..Len(ids) : i < j => ids[i] < ids[j]
    /\ Len(ids) > 0 => ids[1] = 0
    /\ \A s \in Slots : execs[s].state = "owned" =>
           /\ \E i \in 1..Len(ids) : ids[i] = execs[s].id_
           /\ \A r \in Slots \ {s} : execs[r].state = "owned" => execs[r].id_ # execs[s].id_
    /\ Len(ids) = NumInstantiated

\* Two identities have been returned, a handle has been destroyed, and the
\* surviving handle holds identity 1.
C10_Witness ==
    /\ Len(ids) = 2
    /\ NumDestroyed = 1
    /\ \E s \in Slots : execs[s].state = "owned" /\ execs[s].id_ = 1

\* C11: under every verbosity, destroying an empty (moved-from)
\* OwnedCudaGraphExec leaves alive and allocated unchanged; however an
\* executable is moved between handles, it has one owning handle at a time,
\* alive is decremented only by the destruction of a handle that owns an
\* executable, which ends that executable, so at most once for each: the
\* decrements never outnumber the destroyed owning handles.
C11_EmptyHandleNeverNotifies ==
    /\ [][\A t \in Threads, h \in Slots :
            (Destroy(t, h) /\ execs[h].state = "empty") =>
                /\ alive_cuda_graph_execs_' = alive_cuda_graph_execs_
                /\ allocated_cuda_graph_execs_' = allocated_cuda_graph_execs_]_vars
    /\ [][alive_cuda_graph_execs_' = FetchSub(alive_cuda_graph_execs_) =>
            \E h \in Slots :
                /\ execs[h].state = "owned"
                /\ execs'[h].state = "dead"
                /\ \A k \in Slots \ {h} : execs'[k] = execs[k]]_vars
    /\ [](\A s, r \in Slots :
            (s # r /\ execs[s].state = "owned" /\ execs[r].state = "owned") =>
                execs[s].exec # execs[r].exec)
    /\ [](LET created == NumInstantiated
                         + Cardinality({t \in Threads : pc[t] = "inst_allocated"})
          IN  /\ alive_cuda_graph_execs_ <= created
              /\ alive_cuda_graph_execs_ >= created - NumDestroyed)

\* At verbosity 5 an executable has been moved to another handle, the
\* moved-from handle has been destroyed, and then the owning one: alive has
\* gone down once.
C11_Witness ==
    /\ vlog >= DestroyVlogLevel
    /\ \E h \in Slots : execs[h].state = "gone"
    /\ \E k \in Slots : execs[k].state = "dead"
    /\ allocated_cuda_graph_execs_ = 1
    /\ alive_cuda_graph_execs_ = 0
    /\ AllReturned

\* C12: every CaptureCudaGraph call starts on a stream that is not capturing;
\* when cudaStreamBeginCapture and cudaStreamEndCapture succeed and the
\* callback returns Ok, the call returns Ok with an OwnedCudaGraph that owns
\* the graph cudaStreamEndCapture produced (a graph that did not exist
\* before), and the stream is not capturing when the call returns.
C12_SuccessfulCaptureOwnsGraph ==
    [][\A t \in Threads :
        /\ \A err \in CudaErrors : CaptureBegin(t, err) => ~streamCapturing
        /\ CaptureEnd(t, cudaSuccess) =>
              /\ graphs[NewGraph] = "none"
              /\ graphs'[NewGraph] = "raw"
              /\ loc'[t].graph = NewGraph
        /\ (CaptureReturn(t) /\ loc[t].err = cudaSuccess /\ loc[t].captured) =>
              /\ ret'.op = "Capture"
              /\ ret'.code = OkStatus
              /\ graphs[loc[t].graph] = "raw"
              /\ graphs'[loc[t].graph] = "owned"
              /\ \A g \in GraphIds \ {loc[t].graph} : graphs'[g] = graphs[g]
              /\ ~streamCapturing']_vars

\* As many captures as there are graphs have succeeded: every graph is owned
\* by a returned handle.
C12_Witness ==
    /\ ret.op = "Capture"
    /\ ret.code = OkStatus
    /\ \A g \in GraphIds : graphs[g] = "owned"
    /\ ~streamCapturing
    /\ AllReturned

\* C13: a graph that cudaStreamEndCapture produced is owned by no
\* OwnedCudaGraph only while the CaptureCudaGraph call that captured it has
\* not returned: once the call has returned, with Ok or with an error, the
\* graph is owned by the returned handle or has been released.
C13_NoGraphLeftUnowned ==
    \A g \in GraphIds :
        graphs[g] = "raw" =>
            \E t \in Threads : pc[t] = "cap_return" /\ loc[t].graph = g

\* C14: InstantiateCudaGraph and Update take the OwnedCudaGraph from the
\* caller and release its graph exactly once before they return, whether
\* they return Ok or an error: the graph was owned (not released yet), it is
\* released when the call returns, no other graph changes, and a released
\* graph stays released.  Update leaves the cudaGraphExec_t of the handle it
\* is called on in place: the handle still owns it, and the same one; no
\* other handle changes.
C14_GraphHandleConsumed ==
    [][/\ (Returned /\ ret'.op \in {"Instantiate", "Update"}) =>
            \E g \in GraphIds :
                /\ graphs[g] = IF ret'.op = "Instantiate" /\ ret'.code = OkStatus
                               THEN "arg" ELSE "owned"
                /\ graphs'[g] = "destroyed"
                /\ \A k \in GraphIds \ {g} : graphs'[k] = graphs[k]
       /\ \A t \in Threads :
            (pc[t] = "idle" /\ pc'[t] = "inst_alive") =>
                /\ graphs[loc'[t].graph] = "owned"
                /\ graphs'[loc'[t].graph] = "arg"
       /\ (Returned /\ ret'.op = "Update") =>
            /\ \E h \in Slots : execs[h].state = "owned"
            /\ \A h \in Slots :
                /\ execs'[h].state = execs[h].state
                /\ execs'[h].exec = execs[h].exec
                /\ execs[h].state = "owned" => execs[h].exec # 0
       /\ \A g \in GraphIds :
            /\ graphs[g] = "destroyed" => graphs'[g] = "destroyed"
            /\ graphs[g] = "arg" => graphs'[g] \in {"arg", "destroyed"}
      ]_vars

\* An InstantiateCudaGraph call has consumed one graph, and an Update that
\* returned an error another: both are released and the handle still
\* owns its executable.
C14_Witness ==
    /\ ret.op = "Update"
    /\ ret.code = InternalError
    /\ Cardinality({g \in GraphIds : graphs[g] = "destroyed"}) >= 2
    /\ \E h \in Slots : execs[h].state = "owned" /\ execs[h].exec # 0

\* The positions of a CaptureCudaGraph call: before the callback (begin-capture
\* has succeeded), before cudaStreamEndCapture (the callback has returned),
\* before the return (the capture has been ended).
CapturePositions == {"cap_callback", "cap_end", "cap_return"}

\* C15: a CaptureCudaGraph call passes begin-capture, callback and
\* end-capture in this order, each once.  It comes to the callback only from
\* a begin-capture that has just succeeded (the stream is capturing); the
\* callback runs while the stream is capturing and is always followed by
\* cudaStreamEndCapture, whatever it returned, with nothing returned to the
\* caller in between; after the end-capture the call only returns.  A status
\* that carries the callback's result is returned only by a call whose
\* end-capture has been invoked, and a call whose begin-capture failed
\* reaches neither the callback nor the end-capture.
C15_CaptureEventOrder ==
    [][/\ \A t \in Threads :
            /\ (pc'[t] = "cap_callback" /\ pc[t] # "cap_callback") =>
                   /\ pc[t] = "idle"
                   /\ ~streamCapturing
                   /\ streamCapturing'
                   /\ ret' = ret
            /\ (pc[t] = "cap_callback" /\ pc'[t] # pc[t]) =>
                   /\ streamCapturing
                   /\ pc'[t] = "cap_end"
                   /\ streamCapturing'
                   /\ ret' = ret
            /\ (pc[t] = "cap_end" /\ pc'[t] # pc[t]) =>
                   /\ pc'[t] = "cap_return"
                   /\ loc'[t].captured = loc[t].captured
                   /\ streamCapturing
                   /\ ~streamCapturing'
                   /\ ret' = ret
            /\ (pc[t] = "cap_return" /\ pc'[t] # pc[t]) =>
                   /\ pc'[t] = "idle"
                   /\ Returned
                   /\ ret'.op = "Capture"
                   /\ ret'.info = CallbackInfo(loc[t].captured)
            /\ (pc'[t] \in CapturePositions /\ pc[t] \notin CapturePositions) =>
                   pc'[t] = "cap_callback"
       /\ (Returned /\ ret'.op = "Capture") =>
            \/ /\ ret'.msg = "stream begin capture failed"
               /\ ret'.info = ""
               /\ pc' = pc
               /\ \A t \in Threads : pc[t] \notin CapturePositions
            \/ /\ ret'.msg # "stream begin capture failed"
               /\ \E t \in Threads : pc[t] = "cap_return" /\ pc'[t] = "idle"
      ]_vars

\* The callback of a capture has failed and cudaStreamEndCapture has been
\* called after it; the call has not returned yet.
C15_Witness ==
    \E t \in Threads :
        /\ pc[t] = "cap_return"
        /\ ~loc[t].captured
        /\ ~streamCapturing

\* C16: a CaptureCudaGraph call whose cudaStreamBeginCapture fails returns
\* Internal ("stream begin capture failed") in that very step: the call is
\* over (no callback, no end-capture follows), the status carries no callback
\* result, no graph is created and none becomes owned, and the capture state
\* of the stream is what it was before the call.
C16_BeginFailureReturnsAtOnce ==
    [][\A t \in Threads, err \in CudaErrors \ {cudaSuccess} :
          CaptureBegin(t, err) =>
              /\ Returned
              /\ ret'.op = "Capture"
              /\ ret'.code = InternalError
              /\ ret'.msg = "stream begin capture failed"
              /\ ret'.info = ""
              /\ pc'[t] = "idle"
              /\ loc' = loc
              /\ graphs' = graphs
              /\ streamCapturing' = streamCapturing]_vars

\* The first thing that happened is a capture whose begin-capture failed: no
\* graph exists, the stream is not capturing, no call is running.
C16_Witness ==
    /\ ret.op = "Capture"
    /\ ret.msg = "stream begin capture failed"
    /\ ret.code = InternalError
    /\ \A g \in GraphIds : graphs[g] = "none"
    /\ ~streamCapturing
    /\ AllReturned

\* C17: under every verbosity, an Update that returns Ok adds exactly 1 to
\* num_updates_ of the handle, an Update that returns an error leaves it
\* unchanged, and a Launch leaves it unchanged; so at every point
\* num_updates_ is the number of Update calls on the handle that returned Ok.
C17_UpdateCounterCountsSuccesses ==
    [][/\ \A t \in Threads, h \in Slots, g \in GraphIds, err \in CudaErrors,
             updated \in UpdateResults :
            Update(t, h, g, err, updated) =>
                execs'[h].num_updates_ =
                    execs[h].num_updates_
                    + (IF UpdateResult(err, updated).code = OkStatus THEN 1 ELSE 0)
       /\ \A t \in Threads, h \in Slots, err \in CudaErrors :
            Launch(t, h, err) => execs'[h].num_updates_ = execs[h].num_updates_
      ]_vars

\* C18: every Update call, whatever the verbosity and whatever
\* cudaGraphExecUpdate returns (so on an error as on Ok), leaves
\* num_launches_ of the handle at 0, and changes no other handle.
C18_UpdateResetsLaunchCounter ==
    [][(Returned /\ ret'.op = "Update") =>
          \A h \in Slots, g \in GraphIds :
              (execs[h].state = "owned" /\ graphs'[g] # graphs[g]) =>
                  \A t \in Threads, err \in CudaErrors, updated \in UpdateResults :
                      Update(t, h, g, err, updated) =>
                          /\ execs'[h].num_launches_ = 0
                          /\ \A k \in Slots \ {h} : execs'[k] = execs[k]]_vars

\* At verbosity 3 or more, where launches are counted: a handle has been
\* updated once, the Update returned an error, and its launch counter is 0.
C18_Witness ==
    /\ VlogIsOn(LaunchVlogLevel)
    /\ ret.op = "Update"
    /\ ret.code = InternalError
    /\ \E h \in Slots :
          /\ execs[h].state = "owned"
          /\ execs[h].num_updates_ = 1
          /\ execs[h].num_launches_ = 0

\* The type the i-th conversion was applied to.
ConversionInput(i) == IF i = 1 THEN type ELSE converted[i - 1]

\* C19: for every type made of the element types (the five quantized types
\* and others), bare or as the element type of a shaped type, the converter
\* returns what ToLegalType returns, and the result: is not an illegal type;
\* has a signless integer of width 8 / 16 / 32 where the input had qint8 /
\* qint16 / qint32 and an unsigned integer of width 8 / 16 where it had
\* quint8 / quint16; has the container and the shape of the input; is the
\* input itself when the input is not illegal.  Converting a result again
\* returns it unchanged.
C19_LegalizationSound ==
    \A i \in 1..Len(converted) :
        LET src == ConversionInput(i)
            dst == converted[i]
            Elem(k, w, s) == dst.kind = k /\ dst.width = w /\ dst.signedness = s
        IN  /\ dst = ToLegalType(src)
            /\ ~IsIllegalType(dst)
            /\ ~IsIllegalElementType(dst)
            /\ src.kind = "qint8" => Elem("integer", 8, "signless")
            /\ src.kind = "qint16" => Elem("integer", 16, "signless")
            /\ src.kind = "qint32" => Elem("integer", 32, "signless")
            /\ src.kind = "quint8" => Elem("integer", 8, "unsigned")
            /\ src.kind = "quint16" => Elem("integer", 16, "unsigned")
            /\ dst.container = src.container
            /\ dst.shape = src.shape
            /\ ~IsIllegalType(src) => dst = src
            /\ i > 1 => dst = src

\* A ranked tensor of quint16 with a shape of two dimensions has been
\* converted, and the result converted again.
C19_Witness ==
    /\ type.container = "ranked"
    /\ Len(type.shape) = 2
    /\ type.kind = "quint16"
    /\ Len(converted) = 2

====
